---- MODULE Spec2Model ----
(***************************************************************************)
(* Claims dashboard: the reducer-driven Claims Store (AppContext.js), the  *)
(* Remote Access Gateway (services/api.js), the useClaims hook             *)
(* (services/useClaimsApi.js) and the claim validation, as state machines. *)
(*                                                                         *)
(* Representation.  A JavaScript value that may be absent (undefined or    *)
(* null) is NONE for strings and 0 for identifiers and timestamps.  A      *)
(* claim object is a record with the fields the code reads: id, claim_id,  *)
(* status, decision, processedAt.  Percentages are exact integers in       *)
(* hundredths of a percent (66.67 is 6667).  An error is the message the   *)
(* code puts into Error(...).                                              *)
(***************************************************************************)
EXTENDS Integers, Sequences, FiniteSets, Bags, TLC

VARIABLES
    state,          \* the store: useReducer(appReducer, initialState)
    localStorage,   \* window.localStorage, the keys the program uses
    api,            \* api.defaults of the axios instance (baseURL, api-key)
    clock,          \* the wall clock read by new Date()
    mounted,        \* AppProvider has run its mount effects
    settingsDirty,  \* state.settings changed since the save-settings effect ran
    recentDirty,    \* state.recentClaims changed since the save-recent effect ran
    ops,            \* bag of the store's single-item operations in flight
    pp,             \* the run of actions.processPendingClaims (and of the gateway loop under it)
    ppHist,         \* history of the last processPendingClaims call: job at call, page, outcome
    hook,           \* useClaims state: claims, loading, error
    sub,            \* the call in progress of the hook, the gateway or the validation
    sent            \* requests put on the wire by the current batch / submission call

storeVars == <<state, localStorage, api, clock, mounted, settingsDirty, recentDirty, ops>>
batchVars == <<pp, ppHist>>
submitVars == <<hook, sub>>
vars == <<state, localStorage, api, clock, mounted, settingsDirty, recentDirty, ops,
          pp, ppHist, hook, sub, sent>>

----------------------------------------------------------------------------
(* Bounds of the model. *)

\* largest page the remote service returns to one list fetch of the store
MaxPage == 11
\* completed process-claim operations (ADD_CLAIM dispatches) per behaviour
MaxAdds == 2
\* store operations in flight at the same time
MaxOps == 2
\* claims on the page fetched by one process_pending run
MaxPending == 4
\* process_pending runs per behaviour
MaxRuns == 2
\* items of one submit_batch input
MaxBatch == 3
\* submission calls per behaviour
MaxSubmits == 1
\* the page is reloaded only while the clock is below this
MaxReloadClock == 3

(* Program constants. *)

\* recentClaims.slice(0, 9): the entries kept in front of which the new claim goes
RecentKeep == 9

NONE == "none"

Min(a, b) == IF a < b THEN a ELSE b

\* Array.prototype.slice(from, to) on a sequence (0-based, end exclusive)
slice(arr, from, to) == SubSeq(arr, from + 1, Min(to, Len(arr)))

\* A localStorage entry: ABSENT (getItem gives null), CORRUPT (text JSON.parse
\* throws on) or the text JSON.stringify made of a value.  The program stores
\* plain data only (strings, numbers, booleans, arrays and objects of them), on
\* which JSON.parse gives back the value JSON.stringify was given.
ABSENT == [tag |-> "absent"]
CORRUPT == [tag |-> "corrupt"]
JSONstringify(v) == [tag |-> "json", json |-> v]
JSONparses_Never(text) == FALSE
JSONparses(text) == text.tag = "json"
JSONparse(text) == text.json

\* JavaScript truthiness of a string that may be absent
truthy(str) == str \notin {NONE, ""}

\* obj[key] of an object that may lack the key (undefined, here NONE)
prop(obj, key) == IF key \in DOMAIN obj THEN obj[key] ELSE NONE

----------------------------------------------------------------------------
(* The Claims Store: AppContext.js *)

NoClaim == [id |-> 0, claim_id |-> 0, status |-> NONE, decision |-> NONE, processedAt |-> 0]

initialStats ==
    [totalClaims |-> 0, approvedCount |-> 0, deniedCount |-> 0, pendingCount |-> 0,
     approvalRate |-> 0, avgProcessingTime |-> 0]

initialSettings ==
    [apiBaseUrl |-> "http://localhost:8000", apiKey |-> "your_api_key_here",
     theme |-> "light", autoRefresh |-> FALSE, refreshInterval |-> 30000]

initialBatch == [inProgress |-> FALSE, progress |-> 0, results |-> <<>>, errors |-> <<>>]

initialState ==
    [loading |-> FALSE, error |-> NONE, claims |-> <<>>, currentClaim |-> NoClaim,
     recentClaims |-> <<>>, stats |-> initialStats, settings |-> initialSettings,
     batchProcessing |-> initialBatch]

\* { id: claimId, ...result, processedAt: new Date().toISOString() }
NewClaim(claimId, result, now) ==
    [id |-> claimId, claim_id |-> result.claim_id, status |-> result.status,
     decision |-> result.decision, processedAt |-> now]

\* a faulty variant of RecentAfterAdd: the previous entries are not trimmed
RecentAfterAdd_NoTrim(newClaim, recent) == <<newClaim>> \o recent

\* [newClaim, ...state.recentClaims.slice(0, 9)]
RecentAfterAdd(newClaim, recent) == <<newClaim>> \o slice(recent, 0, RecentKeep)

\* a faulty variant of CurrentAfterAdd: a claim already current stays current
CurrentAfterAdd_FirstWins(newClaim, current) ==
    IF current.id = 0 THEN newClaim ELSE current

\* currentClaim: newClaim
CurrentAfterAdd(newClaim, current) == newClaim

\* { ...old, ...payload }: the payload's keys win (every payload key is a key of old)
Spread(old, payload) ==
    [k \in DOMAIN old |-> IF k \in DOMAIN payload THEN payload[k] ELSE old[k]]

\* a faulty variant of Percent: the items are counted from 2
Percent_FromTwo(done, n) == ((done + 1) * 10000) \div n

\* progress as the code computes it, ((i + 1) / n) * 100, in hundredths of a percent
Percent(done, n) == (done * 10000) \div n

\* a faulty variant of StartedBatch: the previous job is spread into the new one
StartedBatch_Spread(job) == [job EXCEPT !.inProgress = TRUE, !.progress = 0]

\* batchProcessing: { inProgress: true, progress: 0, results: [], errors: [] }
StartedBatch(job) ==
    [inProgress |-> TRUE, progress |-> 0, results |-> <<>>, errors |-> <<>>]

appReducer(s, a, now) ==
    CASE a.type = "SET_LOADING" -> [s EXCEPT !.loading = a.payload]
      [] a.type = "SET_ERROR" -> [s EXCEPT !.error = a.payload, !.loading = FALSE]
      [] a.type = "CLEAR_ERROR" -> [s EXCEPT !.error = NONE]
      [] a.type = "ADD_CLAIM" ->
            LET newClaim == NewClaim(a.payload.claimId, a.payload.result, now)
            IN [s EXCEPT !.claims = <<newClaim>> \o @,
                         !.recentClaims = RecentAfterAdd(newClaim, @),
                         !.currentClaim = CurrentAfterAdd(newClaim, @)]
      [] a.type = "SET_CURRENT_CLAIM" -> [s EXCEPT !.currentClaim = a.payload]
      [] a.type = "SET_RECENT_CLAIMS" -> [s EXCEPT !.recentClaims = a.payload]
      [] a.type = "UPDATE_STATS" -> [s EXCEPT !.stats = Spread(@, a.payload)]
      [] a.type = "UPDATE_SETTINGS" ->
            [s EXCEPT !.settings = Spread(@, a.payload)]
      [] a.type = "START_BATCH_PROCESSING" ->
            [s EXCEPT !.batchProcessing = StartedBatch(@)]
      [] a.type = "UPDATE_BATCH_PROGRESS" ->
            [s EXCEPT !.batchProcessing.progress = a.payload]
      [] a.type = "ADD_BATCH_RESULT" ->
            [s EXCEPT !.batchProcessing.results = Append(@, a.payload)]
      [] a.type = "ADD_BATCH_ERROR" ->
            [s EXCEPT !.batchProcessing.errors = Append(@, a.payload)]
      [] a.type = "FINISH_BATCH_PROCESSING" ->
            [s EXCEPT !.batchProcessing.inProgress = FALSE,
                      !.batchProcessing.progress = 10000]
      [] OTHER -> s

Act(type, payload) == [type |-> type, payload |-> payload]

\* the dispatches of one synchronous stretch of code, applied in order
RECURSIVE Dispatch(_, _, _)
Dispatch(s, actions, now) ==
    IF actions = <<>> THEN s
    ELSE Dispatch(appReducer(s, Head(actions), now), Tail(actions), now)

\* a faulty variant of TouchesRecentClaims: the effect does not follow ADD_CLAIM
TouchesRecentClaims_SetOnly(type) == type = "SET_RECENT_CLAIMS"

\* the actions after which state.recentClaims is a new array, so that the effect
\* with the dependency [state.recentClaims] runs again
TouchesRecentClaims(type) == type \in {"ADD_CLAIM", "SET_RECENT_CLAIMS"}

\* a faulty variant of TouchesSettings: the effect does not follow UPDATE_SETTINGS
TouchesSettings_Never(type) == FALSE

\* the action after which state.settings is a new object, so that the effect
\* with the dependency [state.settings] runs again
TouchesSettings(type) == type = "UPDATE_SETTINGS"

RecentClaimsTouched(actions) ==
    \E i \in 1..Len(actions) : TouchesRecentClaims(actions[i].type)
SettingsTouched(actions) ==
    \E i \in 1..Len(actions) : TouchesSettings(actions[i].type)

Count(claims, decision) == Len(SelectSeq(claims, LAMBDA c : c.decision = decision))

\* Math.round(x * 100) / 100 of x = num / den * 100, in hundredths (half rounds up)
RoundedRate(num, den) == (2 * num * 10000 + den) \div (2 * den)

calculateStats(claims) ==
    IF Len(claims) = 0 THEN initialStats
    ELSE [totalClaims |-> Len(claims),
          approvedCount |-> Count(claims, "Approved"),
          deniedCount |-> Count(claims, "Denied"),
          pendingCount |-> Count(claims, "Pending"),
          approvalRate |-> RoundedRate(Count(claims, "Approved"), Len(claims)),
          avgProcessingTime |-> 23]

----------------------------------------------------------------------------
(* The remote service and the persisted data, as the program sees them. *)

StatusCycle == <<"Approved", "Denied", "Approved", "Pending", "Submitted", "Under Review">>

\* the i-th claim the remote service lists: GET /claims/ answers claims that
\* carry claim_id and status
ServerClaim(i) ==
    [id |-> 0, claim_id |-> i, status |-> StatusCycle[((i - 1) % Len(StatusCycle)) + 1],
     decision |-> NONE, processedAt |-> 0]

\* the page of the first n claims
Page(n) == [i \in 1..n |-> ServerClaim(i)]

\* the pages a list fetch of the store may get: empty, short, and every length
\* from the number of entries ADD_CLAIM keeps up to MaxPage
StorePages == {Page(n) : n \in {0, 3} \cup (RecentKeep..MaxPage)}

\* what PUT /claims/{id} answers: the updated claim, with or without a decision
UpdatedClaim(claimId, decision) ==
    [claim_id |-> claimId, status |-> "Under Review", decision |-> decision]

\* the answers to the update of a process claim: the service decided the claim
UpdateResults(claimId) == {UpdatedClaim(claimId, "Approved")}

\* the message of the response interceptor's error that a call of the store
\* fails with
CallErrors == {"Server error. Please try again later."}

\* the claim id the user enters in the claim processor
ProcIds == {1}

customSettings ==
    [apiBaseUrl |-> "http://claims.example:9000", apiKey |-> "key-2",
     theme |-> "dark", autoRefresh |-> TRUE, refreshInterval |-> 60000]

\* what an earlier session may have left under the two keys
PersistedSettings == {ABSENT, CORRUPT, JSONstringify(customSettings)}
PersistedRecent == {ABSENT, CORRUPT, JSONstringify(Page(2))}

----------------------------------------------------------------------------
(* AppProvider: effects and action creators *)

\* apiService.updateConfig(baseUrl, apiKey) on env = [api, localStorage]
updateConfig(env, baseUrl, apiKey) ==
    [api |-> [baseURL |-> baseUrl, apiKey |-> apiKey],
     localStorage |-> [env.localStorage EXCEPT !.apiBaseUrl = baseUrl, !.apiKey = apiKey]]

\* the side effects of reducing `actions` from store state s: the UPDATE_SETTINGS
\* case calls apiService.updateConfig when the payload has a base URL or a key
RECURSIVE ReducerEffects(_, _, _)
ReducerEffects(env, s, actions) ==
    IF actions = <<>> THEN env
    ELSE LET a == Head(actions)
             next == appReducer(s, a, 0)
             env1 == IF a.type = "UPDATE_SETTINGS"
                        /\ (truthy(prop(a.payload, "apiBaseUrl")) \/ truthy(prop(a.payload, "apiKey")))
                     THEN updateConfig(env, next.settings.apiBaseUrl, next.settings.apiKey)
                     ELSE env
         IN ReducerEffects(env1, next, Tail(actions))

\* one synchronous stretch of code dispatching `actions`, with localStorage
\* already written as ls: the store, the gateway configuration and the pending
\* effects after it
Dispatched(actions, ls) ==
    LET env == ReducerEffects([api |-> api, localStorage |-> ls], state, actions)
    IN /\ state' = Dispatch(state, actions, clock)
       /\ api' = env.api
       /\ localStorage' = env.localStorage
       /\ settingsDirty' = (settingsDirty \/ SettingsTouched(actions))
       /\ recentDirty' = (recentDirty \/ RecentClaimsTouched(actions))

\* The three effects of the first render, in order: load from localStorage
\* (dispatches queued), save state.settings, save state.recentClaims and
\* dispatch the stats; then the queued dispatches are reduced.
Mount ==
    /\ ~mounted
    /\ mounted' = TRUE
    /\ LET savedSettings == localStorage.claimProcessorSettings
           savedClaims == localStorage.recentClaims
           queue ==
               (IF JSONparses(savedSettings)
                THEN <<Act("UPDATE_SETTINGS", JSONparse(savedSettings))>> ELSE <<>>)
               \o (IF JSONparses(savedClaims)
                   THEN <<Act("SET_RECENT_CLAIMS", JSONparse(savedClaims))>> ELSE <<>>)
               \o <<Act("UPDATE_STATS", calculateStats(state.recentClaims))>>
           ls == [localStorage EXCEPT
                     !.claimProcessorSettings = JSONstringify(state.settings),
                     !.recentClaims = JSONstringify(state.recentClaims)]
       IN Dispatched(queue, ls)
    /\ UNCHANGED <<clock, ops, pp, ppHist, hook, sub, sent>>

\* useEffect(..., [state.settings])
SaveSettingsEffect ==
    /\ mounted /\ settingsDirty
    /\ settingsDirty' = FALSE
    /\ localStorage' = [localStorage EXCEPT
                            !.claimProcessorSettings = JSONstringify(state.settings)]
    /\ UNCHANGED <<state, api, clock, mounted, recentDirty, ops, pp, ppHist, hook, sub, sent>>

\* useEffect(..., [state.recentClaims])
SaveRecentEffect ==
    /\ mounted /\ recentDirty
    /\ recentDirty' = FALSE
    /\ localStorage' = [localStorage EXCEPT
                            !.recentClaims = JSONstringify(state.recentClaims)]
    /\ state' = Dispatch(state, <<Act("UPDATE_STATS", calculateStats(state.recentClaims))>>,
                         clock)
    /\ UNCHANGED <<api, clock, mounted, settingsDirty, ops, pp, ppHist, hook, sub, sent>>

\* what the callers of actions.updateSettings pass: the settings form's data
\* (Settings.jsx, all five keys, URL and key validated), the settings kept to
\* restore them, and partial updates of the settings
SettingsPayloads ==
    {initialSettings, customSettings,
     [customSettings EXCEPT !.apiBaseUrl = "https://claims.example"],
     [theme |-> "dark"], [apiKey |-> "key-3-long-enough"],
     [apiBaseUrl |-> ""], [apiBaseUrl |-> "", apiKey |-> ""]}

\* actions.updateSettings(settings): dispatch({ type: UPDATE_SETTINGS, payload })
UpdateSettings(settings) ==
    /\ mounted
    /\ Dispatched(<<Act("UPDATE_SETTINGS", settings)>>, localStorage)
    /\ UNCHANGED <<clock, mounted, ops, pp, ppHist, hook, sub, sent>>

Op(kind, arg) == [kind |-> kind, arg |-> arg]
InFlight(kind) == {op \in BagToSet(ops) : op.kind = kind}
Started(op) == ops (+) SetToBag({op})
Settled(op) == ops (-) SetToBag({op})

\* process claims started and not yet settled, and those that added their claim
AddsBegun ==
    Len(state.claims) + BagCardinality([op \in InFlight("processClaim") |-> ops[op]])

\* actions.processClaim up to the await
ProcessClaimStart(claimId) ==
    /\ mounted
    /\ BagCardinality(ops) < MaxOps
    /\ AddsBegun < MaxAdds
    /\ ops' = Started(Op("processClaim", claimId))
    /\ Dispatched(<<Act("SET_LOADING", TRUE), Act("CLEAR_ERROR", NONE)>>, localStorage)
    /\ UNCHANGED <<clock, mounted, pp, ppHist, hook, sub, sent>>

\* apiService.processClaim resolved: addClaim, then finally
ProcessClaimResolve(op, result) ==
    /\ op \in InFlight("processClaim")
    /\ ops' = Settled(op)
    /\ Dispatched(<<Act("ADD_CLAIM", [claimId |-> op.arg, result |-> result]),
                    Act("SET_LOADING", FALSE)>>, localStorage)
    /\ clock' = clock + 1
    /\ UNCHANGED <<mounted, pp, ppHist, hook, sub, sent>>

\* apiService.processClaim rejected: catch, then finally
ProcessClaimReject(op, message) ==
    /\ op \in InFlight("processClaim")
    /\ ops' = Settled(op)
    /\ Dispatched(<<Act("SET_ERROR", message), Act("SET_LOADING", FALSE)>>, localStorage)
    /\ UNCHANGED <<clock, mounted, pp, ppHist, hook, sub, sent>>

\* actions.loadClaims up to the await
LoadClaimsStart ==
    /\ mounted
    /\ BagCardinality(ops) < MaxOps
    /\ ops' = Started(Op("loadClaims", 0))
    /\ Dispatched(<<Act("SET_LOADING", TRUE), Act("CLEAR_ERROR", NONE)>>, localStorage)
    /\ UNCHANGED <<clock, mounted, pp, ppHist, hook, sub, sent>>

\* apiService.getClaims resolved with { claims: page }
LoadClaimsResolve(op, page) ==
    /\ op \in InFlight("loadClaims")
    /\ ops' = Settled(op)
    /\ Dispatched(<<Act("SET_RECENT_CLAIMS", page), Act("SET_LOADING", FALSE)>>,
                  localStorage)
    /\ UNCHANGED <<clock, mounted, pp, ppHist, hook, sub, sent>>

LoadClaimsReject(op, message) ==
    /\ op \in InFlight("loadClaims")
    /\ ops' = Settled(op)
    /\ Dispatched(<<Act("SET_ERROR", message), Act("SET_LOADING", FALSE)>>, localStorage)
    /\ UNCHANGED <<clock, mounted, pp, ppHist, hook, sub, sent>>

\* The page is reloaded: the modules are loaded again (initializeApiConfig and
\* axios.create read localStorage; none of the URLs here has the old port 8080)
\* and AppProvider starts from initialState; requests in flight are abandoned.
Reload ==
    /\ clock < MaxReloadClock
    /\ LET baseUrl == IF truthy(localStorage.apiBaseUrl) THEN localStorage.apiBaseUrl
                      ELSE "http://localhost:8000"
           apiKey == IF truthy(localStorage.apiKey) THEN localStorage.apiKey
                     ELSE "your_api_key_here"
       IN /\ localStorage' = [localStorage EXCEPT !.apiBaseUrl = baseUrl, !.apiKey = apiKey]
          /\ api' = [baseURL |-> baseUrl, apiKey |-> apiKey]
    /\ state' = initialState
    /\ mounted' = FALSE
    /\ settingsDirty' = FALSE
    /\ recentDirty' = FALSE
    /\ ops' = EmptyBag
    /\ UNCHANGED <<clock, pp, ppHist, hook, sub, sent>>

\* actions.setCurrentClaim(claim): the claim selected in the history
SetCurrentClaim(claim) ==
    /\ mounted
    /\ Dispatched(<<Act("SET_CURRENT_CLAIM", claim)>>, localStorage)
    /\ UNCHANGED <<clock, mounted, ops, pp, ppHist, hook, sub, sent>>

\* what apiService.testConnection resolves with: it catches the error of the
\* health check and never rejects
ConnectionOk == [success |-> TRUE, message |-> "Connection successful"]
ConnectionFailed(message) == [success |-> FALSE, message |-> message]

\* actions.testConnection up to the await
TestConnectionStart ==
    /\ mounted
    /\ BagCardinality(ops) < MaxOps
    /\ ops' = Started(Op("testConnection", 0))
    /\ Dispatched(<<Act("SET_LOADING", TRUE), Act("CLEAR_ERROR", NONE)>>, localStorage)
    /\ UNCHANGED <<clock, mounted, pp, ppHist, hook, sub, sent>>

\* apiService.testConnection resolved with `result`, which actions.testConnection
\* returns to its caller; then finally
TestConnectionSettles(op, result) ==
    /\ op \in InFlight("testConnection")
    /\ result \in {ConnectionOk} \cup {ConnectionFailed(message) : message \in CallErrors}
    /\ ops' = Settled(op)
    /\ Dispatched(<<Act("SET_LOADING", FALSE)>>, localStorage)
    /\ UNCHANGED <<clock, mounted, pp, ppHist, hook, sub, sent>>

----------------------------------------------------------------------------
(* process_pending: actions.processPendingClaims over apiService.processPendingClaims *)

\* the body of a request that carries none
NoBody == [status |-> NONE, reason_code |-> NONE, reason_description |-> NONE]

\* a faulty variant of requestConfig: the configuration axios.create was given
requestConfig_AtCreation ==
    [baseURL |-> "http://localhost:8000", apiKey |-> "your_api_key_here"]

\* the configuration a request is sent with: api.defaults merged when the
\* request is made, the api-key header replaced by the request interceptor with
\* localStorage's apiKey when there is one
requestConfig ==
    [baseURL |-> api.baseURL,
     apiKey |-> IF truthy(localStorage.apiKey) THEN localStorage.apiKey ELSE api.apiKey]

\* a request of the gateway: method, URL pattern, the item it is for (a claim id
\* or the index in a batch), the body, and the configuration it is sent with
Request(method, url, item) ==
    [method |-> method, url |-> url, item |-> item, body |-> NoBody,
     config |-> requestConfig]

\* processClaim(claimId): updateClaimStatus(claimId, 'Under Review', null,
\* 'Claim is being processed'), which is api.put(`/claims/${claimId}`, updateData)
UpdateRequest(claimId) ==
    [Request("PUT", "/claims/id", claimId) EXCEPT
        !.body = [status |-> "Under Review", reason_code |-> NONE,
                  reason_description |-> "Claim is being processed"]]

\* no run in progress: the locals of the two functions do not exist
ppIdle == [pc |-> "idle", pending |-> <<>>, k |-> 0, results |-> <<>>, i |-> 0, runs |-> 0]
ppHistNone ==
    [job |-> initialBatch, outcome |-> "none", value |-> <<>>, qualifying |-> 0,
     page |-> <<>>]

\* the message an update of one claim of a run fails with
UpdateError == "Server error. Please try again later."

\* the statuses of the claims the remote service lists, in two states of the
\* service: some claims wait for processing, or none does
WaitingCycle == <<"Submitted", "Pending", "Approved", "Submitted", "Denied", "Pending">>
SettledCycle == <<"Approved", "Denied", "Under Review">>

\* the first n statuses of a cycle, repeated as needed
Statuses(cycle, n) == [i \in 1..n |-> cycle[((i - 1) % Len(cycle)) + 1]]

\* the pages the list fetch of a run may get: up to MaxPending claims
PendingPages ==
    {Statuses(cycle, n) : cycle \in {WaitingCycle, SettledCycle}, n \in 0..MaxPending}

FetchedPage(statuses) ==
    [i \in 1..Len(statuses) |->
        [id |-> 0, claim_id |-> i, status |-> statuses[i], decision |-> NONE,
         processedAt |-> 0]]

\* a faulty variant of pendingClaims: the qualifying claims in reverse order
pendingClaims_Reversed(claims) ==
    LET kept == SelectSeq(claims, LAMBDA claim : claim.status = "Submitted" \/ claim.status = "Pending")
    IN [j \in 1..Len(kept) |-> kept[Len(kept) + 1 - j]]

\* a faulty variant of pendingClaims: only the claims with status Submitted
pendingClaims_SubmittedOnly(claims) ==
    SelectSeq(claims, LAMBDA claim : claim.status = "Submitted")

\* claims.filter(claim => claim.status === 'Submitted' || claim.status === 'Pending')
pendingClaims(claims) ==
    SelectSeq(claims, LAMBDA claim : claim.status = "Submitted" \/ claim.status = "Pending")

NoResult == [claim_id |-> 0, status |-> NONE, decision |-> NONE]

\* the entry the gateway loop pushes for a claim whose update resolved / rejected
ItemSuccess(claim, result) ==
    [claim_id |-> claim.claim_id, success |-> TRUE, result |-> result, error |-> NONE,
     originalStatus |-> claim.status]
ItemFailure(claim, message) ==
    [claim_id |-> claim.claim_id, success |-> FALSE, result |-> NoResult, error |-> message,
     originalStatus |-> claim.status]

\* one iteration of the store's loop over the gateway's results (i is 0-based)
StoreLoopDispatches(results, i) ==
    <<Act("ADD_BATCH_RESULT", results[i + 1]),
      Act("UPDATE_BATCH_PROGRESS", Percent(i + 1, Len(results)))>>

\* after the loop: finishBatchProcessing(), then finally setLoading(false)
RunEndDispatches == <<Act("FINISH_BATCH_PROCESSING", NONE), Act("SET_LOADING", FALSE)>>

\* catch (error): addBatchError, setError; then finally setLoading(false)
RunFailedDispatches(message) ==
    <<Act("ADD_BATCH_ERROR", message), Act("SET_ERROR", message), Act("SET_LOADING", FALSE)>>

\* actions.processPendingClaims up to the await of the list fetch
ProcessPendingStart ==
    /\ mounted
    /\ pp.pc = "idle"
    /\ pp.runs < MaxRuns
    /\ pp' = [pc |-> "fetching", pending |-> <<>>, k |-> 0, results |-> <<>>, i |-> 0,
              runs |-> pp.runs + 1]
    /\ ppHist' = [job |-> state.batchProcessing, outcome |-> "none", value |-> <<>>,
                  qualifying |-> 0, page |-> <<>>]
    /\ sent' = <<Request("GET", "/claims/", 0)>>
    /\ Dispatched(<<Act("START_BATCH_PROCESSING", NONE), Act("SET_LOADING", TRUE),
                    Act("CLEAR_ERROR", NONE)>>, localStorage)
    /\ UNCHANGED <<clock, mounted, ops, hook, sub>>

\* getClaims({ limit: 100 }) rejected: the gateway rethrows, the store catches
FetchRejects(message) ==
    /\ pp.pc = "fetching"
    /\ pp' = [ppIdle EXCEPT !.runs = pp.runs]
    /\ ppHist' = [ppHist EXCEPT !.outcome = "threw"]
    /\ Dispatched(RunFailedDispatches(message), localStorage)
    /\ UNCHANGED <<clock, mounted, ops, hook, sub, sent>>

\* getClaims resolved.  No qualifying claim: the gateway returns [], the store's
\* loop has nothing to do and the run ends.  Otherwise the first update is sent.
FetchResolves(page) ==
    /\ pp.pc = "fetching"
    /\ LET pending == pendingClaims(page)
       IN IF Len(pending) = 0
          THEN /\ pp' = [ppIdle EXCEPT !.runs = pp.runs]
               /\ ppHist' = [ppHist EXCEPT !.outcome = "returned", !.value = <<>>,
                                           !.qualifying = 0, !.page = page]
               /\ Dispatched(RunEndDispatches, localStorage)
               /\ sent' = sent
          ELSE /\ pp' = [pp EXCEPT !.pc = "updating", !.pending = pending, !.k = 1]
               /\ ppHist' = [ppHist EXCEPT !.qualifying = Len(pending), !.page = page]
               /\ sent' = Append(sent, UpdateRequest(pending[1].claim_id))
               /\ UNCHANGED <<state, localStorage, api, settingsDirty, recentDirty>>
    /\ UNCHANGED <<clock, mounted, ops, hook, sub>>

\* the update of claim pp.k settled with `entry`: push it; then either the next
\* update is sent, or the gateway returns and the store's loop runs its first
\* iteration up to the delay
UpdateSettles(entry) ==
    LET results == Append(pp.results, entry)
    IN IF pp.k < Len(pp.pending)
       THEN /\ pp' = [pp EXCEPT !.results = results, !.k = pp.k + 1]
            /\ sent' = Append(sent, UpdateRequest(pp.pending[pp.k + 1].claim_id))
            /\ UNCHANGED <<state, localStorage, api, settingsDirty, recentDirty, ppHist>>
       ELSE /\ pp' = [pp EXCEPT !.results = results, !.pc = "delay", !.i = 1]
            /\ Dispatched(StoreLoopDispatches(results, 0), localStorage)
            /\ UNCHANGED <<sent, ppHist>>

UpdateResolves(result) ==
    /\ pp.pc = "updating"
    /\ UpdateSettles(ItemSuccess(pp.pending[pp.k], result))
    /\ UNCHANGED <<clock, mounted, ops, hook, sub>>

UpdateRejects(message) ==
    /\ pp.pc = "updating"
    /\ UpdateSettles(ItemFailure(pp.pending[pp.k], message))
    /\ UNCHANGED <<clock, mounted, ops, hook, sub>>

\* the 100 ms delay of the store's loop elapsed: the next iteration, or the end
DelayElapses ==
    /\ pp.pc = "delay"
    /\ IF pp.i < Len(pp.results)
       THEN /\ pp' = [pp EXCEPT !.i = pp.i + 1]
            /\ Dispatched(StoreLoopDispatches(pp.results, pp.i), localStorage)
            /\ UNCHANGED ppHist
       ELSE /\ pp' = [ppIdle EXCEPT !.runs = pp.runs]
            /\ ppHist' = [ppHist EXCEPT !.outcome = "returned", !.value = pp.results]
            /\ Dispatched(RunEndDispatches, localStorage)
    /\ UNCHANGED <<clock, mounted, ops, hook, sub, sent>>

----------------------------------------------------------------------------
(* Validation: ClaimUtils.validateClaim (api.js), FormUtils (claimsFormUtils.js) *)

(* A claim is a record of the nine fields of the form, each a string or NONE   *)
(* (undefined).  The checks read a value through the tables below: whether it *)
(* is whitespace only, its length, whether the identifier pattern matches it,  *)
(* whether it is a boolean, whether Date parses it.                            *)

Whitespace == {"", "   "}
trim(v) == IF v \in Whitespace THEN "" ELSE v
falsy(v) == ~truthy(v)

SampleSummary == "Went to a therapist for depression counselling and anti-depressant meds"

\* String.prototype.length of the values a summary takes in the model
length(v) ==
    CASE v = "" -> 0
      [] v = "   " -> 3
      [] v = "Too short" -> 9
      [] v = "Ten chars." -> 10
      [] v = "<1000 characters>" -> 1000
      [] v = "<1001 characters>" -> 1001
      [] v = SampleSummary -> 71
      [] OTHER -> 36

\* the identifiers /^[0-9a-f]{8}-[0-9a-f]{4}-[1-5][0-9a-f]{3}-[89ab][0-9a-f]{3}-[0-9a-f]{12}$/i matches
WellFormedIds ==
    {"c0a19ac4-96ba-4c5f-8e44-425d3173b0d6", "1084bc4d-dd50-4eb4-a7da-591dc0f9bd76",
     "461caa86-be43-4b30-b67a-182fb964c546", "3d3eef35-4bd4-4e62-a20c-58b8a85e9000"}
uuidRegexTest(v) == v \in WellFormedIds

\* typeof v === 'boolean': the two booleans are "true" and "false", any other
\* value of a flag is of another type
isBoolean(v) == v \in {"true", "false"}
\* Boolean(v)
Boolean(v) == IF v \in {NONE, "", "false"} THEN "false" ELSE "true"

\* the values new Date(v) parses, and new Date(v).toISOString()
ValidDates == {"2025-01-15T10:30", "2025-01-15T10:30:00.000Z"}
toISOString(v) == "2025-01-15T10:30:00.000Z"

requiredFields == <<"provider_id", "risk_id", "patient_id", "policy_id", "summary">>
uuidFields == <<"provider_id", "risk_id", "patient_id", "policy_id">>
validStatuses == {"Submitted", "Pending", "Approved", "Denied", "Under Review"}
booleanFields == <<"ex_gratia_flag", "appeal_case_flag">>

Err(field, text) == [field |-> field, text |-> text]

\* a faulty variant of ErrorsFor: only the first failing field is reported
ErrorsFor_FirstOnly(failing, text) ==
    IF failing = <<>> THEN <<>> ELSE <<Err(failing[1], text)>>

\* the messages pushed for the fields that fail a check
ErrorsFor(failing, text) == [i \in 1..Len(failing) |-> Err(failing[i], text)]

\* ClaimUtils.validateClaim(claimData).errors
validateClaimErrors(c) ==
    ErrorsFor(SelectSeq(requiredFields, LAMBDA f : falsy(c[f]) \/ trim(c[f]) = ""),
              "is required")
    \o ErrorsFor(SelectSeq(uuidFields, LAMBDA f : truthy(c[f]) /\ ~uuidRegexTest(c[f])),
                 "must be a valid UUID")
    \o (IF truthy(c.status) /\ c.status \notin validStatuses
        THEN <<Err("status", "must be one of: Submitted, Pending, Approved, Denied, Under Review")>>
        ELSE <<>>)
    \o ErrorsFor(SelectSeq(booleanFields, LAMBDA f : c[f] # NONE /\ ~isBoolean(c[f])),
                 "must be a boolean value")
    \o (IF truthy(c.submission_date) /\ c.submission_date \notin ValidDates
        THEN <<Err("submission_date", "must be a valid ISO date string")>>
        ELSE <<>>)

validateClaim(c) ==
    [isValid |-> Len(validateClaimErrors(c)) = 0, errors |-> validateClaimErrors(c)]

\* FormUtils.validateField for the fields of CLAIM_FORM_FIELDS
validateField(fieldName, value) ==
    LET required == fieldName \in {"provider_id", "risk_id", "patient_id", "policy_id",
                                   "summary", "status"}
        empty == falsy(value) \/ trim(value) = ""
    IN IF required /\ empty THEN <<Err(fieldName, "is required")>>
       ELSE IF empty THEN <<>>
       ELSE (IF fieldName \in {"provider_id", "risk_id", "patient_id", "policy_id"}
                /\ ~uuidRegexTest(value)
             THEN <<Err(fieldName, "Must be a valid UUID format")>> ELSE <<>>)
            \o (IF fieldName = "summary" /\ length(value) < 10
                THEN <<Err(fieldName, "must be at least 10 characters")>> ELSE <<>>)
            \o (IF fieldName = "summary" /\ length(value) > 1000
                THEN <<Err(fieldName, "must not exceed 1000 characters")>> ELSE <<>>)

formFields ==
    <<"provider_id", "risk_id", "patient_id", "policy_id", "summary", "status",
      "submission_date", "ex_gratia_flag", "appeal_case_flag">>

\* FormUtils.validateForm(formData).isValid
validateFormIsValid(formData) ==
    \A i \in 1..Len(formFields) : validateField(formFields[i], formData[formFields[i]]) = <<>>

\* FormUtils.formatFormDataForApi(formData); new Date(x).toISOString() throws a
\* RangeError on a date that does not parse
formatThrows(formData) ==
    truthy(formData.submission_date) /\ formData.submission_date \notin ValidDates
formatFormDataForApi(formData) ==
    [formData EXCEPT
        !.submission_date = IF truthy(@) THEN toISOString(@) ELSE @,
        !.ex_gratia_flag = Boolean(@),
        !.appeal_case_flag = Boolean(@)]

\* ClaimUtils.getSampleClaim(), with the date as the form's datetime-local text
sampleClaim ==
    [provider_id |-> "c0a19ac4-96ba-4c5f-8e44-425d3173b0d6",
     risk_id |-> "1084bc4d-dd50-4eb4-a7da-591dc0f9bd76",
     patient_id |-> "461caa86-be43-4b30-b67a-182fb964c546",
     policy_id |-> "3d3eef35-4bd4-4e62-a20c-58b8a85e9000",
     summary |-> SampleSummary,
     status |-> "Submitted",
     submission_date |-> "2025-01-15T10:30",
     ex_gratia_flag |-> "false",
     appeal_case_flag |-> "false"]

\* the claims handed to the submission entry points: the sample, and the sample
\* with one field absent, whitespace only, malformed or too short
SubmittedClaims ==
    {sampleClaim,
     [sampleClaim EXCEPT !.provider_id = NONE],
     [sampleClaim EXCEPT !.risk_id = "   "],
     [sampleClaim EXCEPT !.patient_id = "not-a-uuid"],
     [sampleClaim EXCEPT !.summary = "Too short"]}

----------------------------------------------------------------------------
(* Submission: useClaims.submitClaim / submitBatchClaims (useClaimsApi.js),    *)
(* apiService.submitClaim / submitBatchClaims (api.js),                        *)
(* ClaimSubmissionForm.handleSubmit (ClaimHistory.jsx)                         *)

\* an Error's message: its text and the per-claim reports it carries
Msg(text, detail) == [text |-> text, detail |-> detail]
NoMsg == Msg(NONE, <<>>)
Report(claimNo, errors) == [claim |-> claimNo, errors |-> errors]

\* what POST /claims/ answers for item `item` of a call: the created claim,
\* already adjudicated by the service
CreatedClaim(item) ==
    [id |-> 0, claim_id |-> 101 + item, status |-> "Approved", decision |-> NONE,
     processedAt |-> 0]

\* the message a create request fails with
CreateError == "Server error. Please try again later."

subIdle ==
    [pc |-> "idle", via |-> NONE, kind |-> NONE, input |-> <<>>, i |-> 0,
     results |-> <<>>, errors |-> <<>>, attempted |-> <<>>, outcome |-> "none",
     thrown |-> NoMsg, created |-> NoClaim, claimsAtCall |-> <<>>, answers |-> <<>>,
     calls |-> 0]

\* a faulty variant of PreflightErrors: the first invalid claim ends the validation
PreflightErrors_FirstOnly(claimsArray) ==
    LET invalid == {i \in 1..Len(claimsArray) : ~validateClaim(claimsArray[i]).isValid}
    IN IF invalid = {} THEN <<>>
       ELSE LET first == CHOOSE i \in invalid : \A j \in invalid : i <= j
            IN <<Report(first, validateClaim(claimsArray[first]).errors)>>

\* useClaims.submitBatchClaims: validationErrors, one entry `Claim ${index + 1}:
\* ...` per invalid claim, in input order
PreflightErrors(claimsArray) ==
    LET indices == [i \in 1..Len(claimsArray) |-> i]
        invalid == SelectSeq(indices, LAMBDA i : ~validateClaim(claimsArray[i]).isValid)
    IN [j \in 1..Len(invalid) |-> Report(invalid[j], validateClaim(claimsArray[invalid[j]]).errors)]

\* apiService.submitClaim: requiredFields.filter(field => !claimData[field])
missingFields(claimData) == SelectSeq(requiredFields, LAMBDA f : falsy(claimData[f]))

MissingMsg(claimData) ==
    LET missing == missingFields(claimData)
    IN Msg("Missing required fields",
           <<Report(0, [j \in 1..Len(missing) |-> Err(missing[j], "missing")])>>)

\* a faulty variant of BatchAfterItem: a failed item ends the loop
BatchAfterItem_AbortOnError(b, success, data, message) ==
    IF success
    THEN [b EXCEPT !.results = Append(@, [index |-> b.i, success |-> TRUE, data |-> data]),
                   !.i = b.i + 1]
    ELSE [b EXCEPT !.errors = Append(@, [index |-> b.i, success |-> FALSE,
                                          error |-> message, data |-> b.input[b.i + 1]]),
                   !.i = Len(b.input)]

\* apiService.submitBatchClaims, the body of the loop after submitClaim settled
\* for item b.i (0-based): push to results or to errors, go to the next item
BatchAfterItem(b, success, data, message) ==
    IF success
    THEN [b EXCEPT !.results = Append(@, [index |-> b.i, success |-> TRUE, data |-> data]),
                   !.i = b.i + 1]
    ELSE [b EXCEPT !.errors = Append(@, [index |-> b.i, success |-> FALSE,
                                          error |-> message, data |-> b.input[b.i + 1]]),
                   !.i = b.i + 1]

\* the counts of the value submitBatchClaims returns
BatchSummary(b) ==
    [total |-> Len(b.input), successful |-> Len(b.results), failed |-> Len(b.errors)]

\* The loop from item b.i up to its next await of a request: submitClaim is
\* called for the item; an item with a missing required field throws before
\* any request and is pushed to errors at once; the loop stops at the first
\* item whose create request is sent ("posting") or after the last ("returning").
RECURSIVE GatewayBatchRun(_)
GatewayBatchRun(b) ==
    IF b.i >= Len(b.input) THEN [b EXCEPT !.pc = "returning"]
    ELSE LET claim == b.input[b.i + 1]
             called == [b EXCEPT !.attempted = Append(@, b.i)]
         IN IF Len(missingFields(claim)) > 0
            THEN GatewayBatchRun(BatchAfterItem(called, FALSE, NoClaim, MissingMsg(claim)))
            ELSE [called EXCEPT !.pc = "posting"]

\* the hook's state when a call of its ends: finally setLoading(false), and
\* setError(err.message) when it threw
HookAfter(h, thrown) ==
    IF thrown = NoMsg THEN [h EXCEPT !.loading = FALSE]
    ELSE [h EXCEPT !.error = thrown, !.loading = FALSE]

\* sub.answers records what the service answered to each create request of a
\* batch, sub.claimsAtCall the hook's claims when the call began.

\* the call ended: it returned, or threw `thrown`
CallEnds(b, thrown, hookNow) ==
    /\ sub' = [b EXCEPT !.pc = "done",
                        !.outcome = IF thrown = NoMsg THEN "returned" ELSE "threw",
                        !.thrown = thrown]
    /\ hook' = IF b.via = "gateway" THEN hookNow ELSE HookAfter(hookNow, thrown)

\* the batch loop advanced to b: a request goes out, or the call returns
\* { total, successful, failed, results, errors } (the hook adds result.claims,
\* which the gateway's result does not have, to its claims: nothing)
BatchContinues(b, hookNow) ==
    IF b.pc = "posting"
    THEN /\ sub' = b
         /\ hook' = hookNow
         /\ sent' = Append(sent, Request("POST", "/claims/", b.i))
    ELSE /\ CallEnds(b, NoMsg, hookNow)
         /\ sent' = sent

CanCall == sub.pc \in {"idle", "done"} /\ sub.calls < MaxSubmits

NewCall(via, kind, input) ==
    [subIdle EXCEPT !.via = via, !.kind = kind, !.input = input,
                    !.claimsAtCall = hook.claims, !.calls = sub.calls + 1]

\* setLoading(true); setError(null)
HookEntered == [hook EXCEPT !.loading = TRUE, !.error = NoMsg]

\* submit_batch by one of its entry points, up to the first await or to its end
SubmitBatchCall(via, claimsArray) ==
    /\ CanCall
    /\ via \in {"hook", "gateway"}
    /\ LET b == NewCall(via, "batch", claimsArray)
           hookNow == IF via = "hook" THEN HookEntered ELSE hook
           preflight == IF via = "hook" THEN PreflightErrors(claimsArray) ELSE <<>>
       IN IF Len(preflight) > 0
          THEN /\ CallEnds(b, Msg("Validation failed", preflight), hookNow)
               /\ sent' = <<>>
          ELSE IF Len(claimsArray) = 0
          THEN /\ CallEnds(b, Msg("Claims array is required and cannot be empty", <<>>),
                           hookNow)
               /\ sent' = <<>>
          ELSE LET run == GatewayBatchRun(b)
               IN IF run.pc = "posting"
                  THEN /\ sub' = run
                       /\ hook' = hookNow
                       /\ sent' = <<Request("POST", "/claims/", run.i)>>
                  ELSE /\ CallEnds(run, NoMsg, hookNow)
                       /\ sent' = <<>>
    /\ UNCHANGED <<storeVars, batchVars>>

\* the create request of item sub.i of a batch settled
BatchPostSettles(success, data, message) ==
    /\ sub.pc = "posting" /\ sub.kind = "batch"
    /\ LET answered == [sub EXCEPT !.answers = Append(@, [index |-> sub.i, ok |-> success])]
       IN BatchContinues(GatewayBatchRun(BatchAfterItem(answered, success, data, message)),
                         hook)
    /\ UNCHANGED <<storeVars, batchVars>>

\* submit of one claim by one of its entry points, up to the await or to its end
SubmitCall(via, claim) ==
    /\ CanCall
    /\ via \in {"form", "hook", "gateway"}
    /\ LET b == NewCall(via, "single", <<claim>>)
           called == [b EXCEPT !.attempted = <<0>>]
       IN CASE via = "form" /\ ~validateFormIsValid(claim) ->
                  \* clearError(); setFormErrors(validation.errors); return
                  /\ sub' = [b EXCEPT !.pc = "done", !.outcome = "rejected"]
                  /\ hook' = [hook EXCEPT !.error = NoMsg]
                  /\ sent' = <<>>
            [] via = "form" /\ validateFormIsValid(claim) /\ formatThrows(claim) ->
                  \* the RangeError is caught and logged by handleSubmit
                  /\ sub' = [b EXCEPT !.pc = "done", !.outcome = "threw",
                                      !.thrown = Msg("Invalid time value", <<>>)]
                  /\ hook' = [hook EXCEPT !.error = NoMsg]
                  /\ sent' = <<>>
            [] OTHER ->
                  LET claimData == IF via = "form" THEN formatFormDataForApi(claim) ELSE claim
                      hookNow == IF via = "gateway" THEN hook ELSE HookEntered
                      validation == validateClaim(claimData)
                      withData == [called EXCEPT !.input = <<claimData>>]
                  IN IF via # "gateway" /\ ~validation.isValid
                     THEN /\ CallEnds(b, Msg("Validation failed",
                                             <<Report(0, validation.errors)>>), hookNow)
                          /\ sent' = <<>>
                     ELSE IF Len(missingFields(claimData)) > 0
                     THEN /\ CallEnds(withData, MissingMsg(claimData), hookNow)
                          /\ sent' = <<>>
                     ELSE /\ sub' = [withData EXCEPT !.pc = "posting"]
                          /\ hook' = hookNow
                          /\ sent' = <<Request("POST", "/claims/", 0)>>
    /\ UNCHANGED <<storeVars, batchVars>>

\* the create request of a single submit resolved: the hook prepends the result
\* to its claims
PostResolves(data) ==
    /\ sub.pc = "posting" /\ sub.kind = "single"
    /\ CallEnds([sub EXCEPT !.created = data], NoMsg,
                IF sub.via = "gateway" THEN hook
                ELSE [hook EXCEPT !.claims = <<data>> \o @])
    /\ UNCHANGED <<storeVars, batchVars, sent>>

PostRejects(message) ==
    /\ sub.pc = "posting" /\ sub.kind = "single"
    /\ CallEnds(sub, Msg(message, <<>>), hook)
    /\ UNCHANGED <<storeVars, batchVars, sent>>

----------------------------------------------------------------------------
(* Initial states and specifications *)

hookInitial == [claims |-> <<>>, loading |-> FALSE, error |-> NoMsg]

\* the program after the modules are loaded and before AppProvider's effects run
InitStore ==
    /\ state = initialState
    /\ localStorage \in
          [claimProcessorSettings : PersistedSettings, recentClaims : PersistedRecent,
           apiBaseUrl : {"http://localhost:8000"}, apiKey : {"your_api_key_here"}]
    /\ api = [baseURL |-> localStorage.apiBaseUrl, apiKey |-> localStorage.apiKey]
    /\ clock = 1
    /\ mounted = FALSE
    /\ settingsDirty = FALSE
    /\ recentDirty = FALSE
    /\ ops = EmptyBag

InitRest ==
    /\ pp = ppIdle
    /\ ppHist = ppHistNone
    /\ hook = hookInitial
    /\ sub = subIdle
    /\ sent = <<>>

Init == InitStore /\ InitRest

\* the store with its single-item operations
Next ==
    \/ Mount
    \/ SaveSettingsEffect
    \/ SaveRecentEffect
    \/ \E claimId \in ProcIds : ProcessClaimStart(claimId)
    \/ \E op \in InFlight("processClaim") :
          \E result \in UpdateResults(op.arg) : ProcessClaimResolve(op, result)
    \/ \E op \in InFlight("processClaim") :
          \E message \in CallErrors : ProcessClaimReject(op, message)
    \/ LoadClaimsStart
    \/ \E op \in InFlight("loadClaims") : \E page \in StorePages : LoadClaimsResolve(op, page)
    \/ \E op \in InFlight("loadClaims") : \E message \in CallErrors : LoadClaimsReject(op, message)

Spec == Init /\ [][Next]_vars

\* React runs the effect of [state.recentClaims] after every render that
\* changed it
FairSpec == Spec /\ WF_vars(SaveRecentEffect)

\* the claims of a batch handed to an entry point: the sample and the sample
\* with an identifier absent (the gateway throws on it before any request); the
\* hook is also given an identifier that is whitespace only
BatchClaims(via) ==
    {sampleClaim, [sampleClaim EXCEPT !.provider_id = NONE]}
    \cup (IF via = "hook" THEN {[sampleClaim EXCEPT !.risk_id = "   "]} ELSE {})

\* the inputs of submit_batch: up to MaxBatch claims
BatchInputs(via) == UNION {[1..n -> BatchClaims(via)] : n \in 0..MaxBatch}

SubmitNext ==
    \/ Mount
    \/ \E via \in {"hook", "gateway"} : \E claimsArray \in BatchInputs(via) :
          SubmitBatchCall(via, claimsArray)
    \/ BatchPostSettles(TRUE, CreatedClaim(sub.i), Msg(NONE, <<>>))
    \/ BatchPostSettles(FALSE, NoClaim, Msg(CreateError, <<>>))
    \/ \E via \in {"form", "hook", "gateway"} : \E claim \in SubmittedClaims :
          SubmitCall(via, claim)
    \/ PostResolves(CreatedClaim(0))
    \/ PostRejects(CreateError)

\* a fresh browser: nothing persisted by an earlier session
FreshInit ==
    /\ Init
    /\ localStorage.claimProcessorSettings = ABSENT
    /\ localStorage.recentClaims = ABSENT

\* the steps of a run that the remote service and the timer take
BatchStep ==
    \/ \E message \in CallErrors : FetchRejects(message)
    \/ \E statuses \in PendingPages : FetchResolves(FetchedPage(statuses))
    \/ /\ pp.pc = "updating"
       /\ UpdateResolves(UpdatedClaim(pp.pending[pp.k].claim_id, NONE))
    \/ UpdateRejects(UpdateError)
    \/ DelayElapses

BatchNext ==
    \/ Mount
    \/ ProcessPendingStart
    \/ BatchStep

BatchSpec == FreshInit /\ [][BatchNext]_vars

\* every request settles (axios timeout: 30000) and every timer fires
FairBatchSpec == BatchSpec /\ WF_vars(BatchStep)

\* the store with its single-item operations and the connection test
StoreNext ==
    \/ Next
    \/ TestConnectionStart
    \/ \E op \in InFlight("testConnection") : TestConnectionSettles(op, ConnectionOk)
    \/ \E op \in InFlight("testConnection") : \E message \in CallErrors :
          TestConnectionSettles(op, ConnectionFailed(message))

StoreSpec == Init /\ [][StoreNext]_vars

\* the store with process claims of two claim ids and selections in the history
CurrentNext ==
    \/ Mount
    \/ SaveSettingsEffect
    \/ SaveRecentEffect
    \/ \E claimId \in {1, 2} : ProcessClaimStart(claimId)
    \/ \E op \in InFlight("processClaim") :
          \E result \in UpdateResults(op.arg) : ProcessClaimResolve(op, result)
    \/ \E op \in InFlight("processClaim") :
          \E message \in CallErrors : ProcessClaimReject(op, message)
    \/ \E j \in 1..Len(state.recentClaims) : SetCurrentClaim(state.recentClaims[j])

CurrentSpec == Init /\ [][CurrentNext]_vars

\* process_pending runs while the settings page saves settings
ConfigNext ==
    \/ BatchNext
    \/ SaveSettingsEffect
    \/ \E settings \in {initialSettings, customSettings} : UpdateSettings(settings)

ConfigSpec == FreshInit /\ [][ConfigNext]_vars

\* a startup that finds an entry an earlier session left unparseable
CorruptInit ==
    /\ Init
    /\ (localStorage.claimProcessorSettings = CORRUPT \/ localStorage.recentClaims = CORRUPT)

CorruptSpec == CorruptInit /\ [][Next]_vars

\* the store over several sessions of the browser
PersistNext ==
    \/ Mount
    \/ SaveSettingsEffect
    \/ SaveRecentEffect
    \/ \E claimId \in ProcIds : ProcessClaimStart(claimId)
    \/ \E op \in InFlight("processClaim") :
          \E result \in UpdateResults(op.arg) : ProcessClaimResolve(op, result)
    \/ LoadClaimsStart
    \/ \E op \in InFlight("loadClaims") : LoadClaimsResolve(op, Page(3))
    \/ \E settings \in {customSettings, [theme |-> "dark"]} : UpdateSettings(settings)
    \/ Reload

PersistSpec == Init /\ [][PersistNext]_vars

\* batch runs of either kind: process_pending runs of the store, or submit_batch
\* calls of the hook and the gateway (the two are independent of each other; a
\* behaviour follows one kind)
RunsNext ==
    \/ Mount
    \/ (sub = subIdle /\ ProcessPendingStart)
    \/ BatchStep
    \/ \E via \in {"hook", "gateway"} : \E claimsArray \in BatchInputs(via) :
          (pp = ppIdle /\ SubmitBatchCall(via, claimsArray))
    \/ BatchPostSettles(TRUE, CreatedClaim(sub.i), Msg(NONE, <<>>))
    \/ BatchPostSettles(FALSE, NoClaim, Msg(CreateError, <<>>))

RunsSpec == FreshInit /\ [][RunsNext]_vars

\* the provider with the settings page: the effects and updates of the settings
SettingsNext ==
    \/ Mount
    \/ SaveSettingsEffect
    \/ SaveRecentEffect
    \/ \E settings \in SettingsPayloads : UpdateSettings(settings)

SettingsSpec == Init /\ [][SettingsNext]_vars

\* the submission entry points
SubmitSpec == FreshInit /\ [][SubmitNext]_vars

\* the values validateClaim is given for an identifier and for the summary:
\* the sample's, absent, empty, blank, malformed, and summaries at the edges
\* of the form's length limits
IdValues(field) == {sampleClaim[field], NONE, "", "   ", "not-a-uuid"}
SummaryValues ==
    {SampleSummary, NONE, "", "Too short", "Ten chars.", "<1000 characters>",
     "<1001 characters>"}

\* the sample, or the sample with a status outside the enumeration, a flag
\* that is no boolean, or a date that does not parse
OtherFieldVariants ==
    {sampleClaim, [sampleClaim EXCEPT !.status = "Rejected"],
     [sampleClaim EXCEPT !.ex_gratia_flag = "yes"],
     [sampleClaim EXCEPT !.submission_date = "yesterday"]}

ValidatedClaims ==
    {[base EXCEPT !.provider_id = provider, !.risk_id = risk, !.patient_id = patient,
                  !.policy_id = policy, !.summary = summary] :
        base \in OtherFieldVariants, provider \in IdValues("provider_id"),
        risk \in IdValues("risk_id"), patient \in IdValues("patient_id"),
        policy \in IdValues("policy_id"), summary \in SummaryValues}

\* a caller about to validate a claim
ValidateInit ==
    /\ InitStore
    /\ localStorage.claimProcessorSettings = ABSENT
    /\ localStorage.recentClaims = ABSENT
    /\ pp = ppIdle /\ ppHist = ppHistNone /\ hook = hookInitial /\ sent = <<>>
    /\ sub \in {[subIdle EXCEPT !.via = "validate", !.input = <<claim>>] :
                   claim \in ValidatedClaims}

\* ClaimUtils.validateClaim(claimData) returns { isValid, errors }
ValidateCall ==
    /\ sub.pc = "idle" /\ sub.via = "validate"
    /\ LET validation == validateClaim(sub.input[1])
       IN sub' = [sub EXCEPT !.pc = "done",
                             !.outcome = IF validation.isValid THEN "valid" ELSE "invalid",
                             !.thrown = Msg(NONE, <<Report(0, validation.errors)>>)]
    /\ UNCHANGED <<storeVars, batchVars, hook, sent>>

ValidateSpec == ValidateInit /\ [][ValidateCall]_vars

----------------------------------------------------------------------------
(* The gateway's response interceptor (api.js) *)

\* An axios error: whether a response was received (with its status and the
\* message of its body, NONE without one), whether the request was made, and
\* the error's own message and code.
AxiosError(response, status, bodyMessage, request, message, code) ==
    [response |-> response, status |-> status, bodyMessage |-> bodyMessage,
     request |-> request, message |-> message, code |-> code]

\* error.message.includes('CORS')
includesCORS(message) == message \in {"CORS request did not succeed"}

\* `HTTP ${status}: ${error.message}`
HttpMsg(status, message) ==
    Msg("HTTP ${status}: ${error.message}", <<Report(status, <<Err("message", message)>>)>>)

\* the Error the rejection handler of api.interceptors.response throws
responseInterceptor(error) ==
    IF error.response
    THEN CASE error.status = 401 -> Msg("Invalid API key. Please check your credentials.", <<>>)
           [] error.status = 403 -> Msg("Access forbidden. Please check your permissions.", <<>>)
           [] error.status = 404 -> Msg("Endpoint not found. Please check the API URL.", <<>>)
           [] error.status = 405 ->
                 Msg("Method not allowed. The backend endpoint may not support this HTTP method.", <<>>)
           [] error.status = 429 -> Msg("Rate limit exceeded. Please try again later.", <<>>)
           [] error.status = 500 -> Msg("Server error. Please try again later.", <<>>)
           [] OTHER -> IF truthy(error.bodyMessage) THEN Msg(error.bodyMessage, <<>>)
                       ELSE HttpMsg(error.status, error.message)
    ELSE IF error.request
    THEN IF includesCORS(error.message) \/ error.code = "ERR_NETWORK"
         THEN Msg("CORS error: Please ensure the backend server is running and configured to allow requests from this origin. Check the proxy configuration.", <<>>)
         ELSE Msg("Network error. Please check your connection and ensure the backend is running.", <<>>)
    ELSE IF truthy(error.message) THEN Msg(error.message, <<>>)
         ELSE Msg("An unexpected error occurred.", <<>>)

\* the statuses of the error responses the service answers with
ErrorStatuses == {400, 401, 403, 404, 405, 408, 409, 418, 422, 429, 500, 501, 502, 503, 504, 599}

\* the errors axios hands to the interceptor: an error response (with or
\* without a message in its body), no response to a request made, and an
\* error raised before the request was made
AxiosErrors ==
    {AxiosError(TRUE, status, bodyMessage, TRUE, "Request failed with status code", "ERR_BAD_RESPONSE") :
        status \in ErrorStatuses, bodyMessage \in {NONE, "", "Claim not found in registry"}}
    \cup {AxiosError(FALSE, 0, NONE, TRUE, message, code) :
             message \in {"Network Error", "CORS request did not succeed",
                          "timeout of 30000ms exceeded"},
             code \in {"ERR_NETWORK", "ECONNABORTED", NONE}}
    \cup {AxiosError(FALSE, 0, NONE, FALSE, message, NONE) :
             message \in {"", "Invalid URL"}}

\* a request of the gateway about to fail with an axios error
InterceptInit ==
    /\ InitStore
    /\ localStorage.claimProcessorSettings = ABSENT
    /\ localStorage.recentClaims = ABSENT
    /\ pp = ppIdle /\ ppHist = ppHistNone /\ hook = hookInitial /\ sent = <<>>
    /\ sub \in {[subIdle EXCEPT !.via = "interceptor", !.input = <<error>>] :
                   error \in AxiosErrors}

\* the rejection handler runs and throws
Intercept ==
    /\ sub.pc = "idle" /\ sub.via = "interceptor"
    /\ sub' = [sub EXCEPT !.pc = "done", !.outcome = "threw",
                          !.thrown = responseInterceptor(sub.input[1])]
    /\ UNCHANGED <<storeVars, batchVars, hook, sent>>

InterceptSpec == InterceptInit /\ [][Intercept]_vars

----------------------------------------------------------------------------
(* The gateway's list call: apiService.getClaims (api.js) *)

\* a faulty variant of applyFilter: the filter is not applied
applyFilter_Ignored(claims, filters, field) == claims

\* if (filters[field]) claims = claims.filter(claim => claim[field] === filters[field])
applyFilter(claims, filters, field) ==
    IF truthy(filters[field])
    THEN SelectSeq(claims, LAMBDA claim : claim[field] = filters[field])
    ELSE claims

\* apiService.getClaims(filters) when GET /claims/ answers `data`: the request's
\* params (the pairs of an object; skip and limit are -1 when undefined) and
\* the claims returned
getClaims(filters, data) ==
    [params |-> {<<k, filters[k]>> : k \in {k \in {"skip", "limit"} : filters[k] # -1}},
     claims |-> applyFilter(applyFilter(applyFilter(applyFilter(data, filters, "status"),
                    filters, "provider_id"), filters, "patient_id"), filters, "policy_id")]

\* the claims the service lists, by status, provider, patient and policy
ListedPage ==
    LET claim(i, status, provider, patient, policy) ==
            [claim_id |-> i, status |-> status, provider_id |-> provider,
             patient_id |-> patient, policy_id |-> policy]
    IN <<claim(1, "Approved", "provider-1", "patient-1", "policy-1"),
         claim(2, "Pending", "provider-2", "patient-1", "policy-2"),
         claim(3, "Approved", "provider-2", "patient-2", "policy-1"),
         claim(4, "Approved", "provider-1", "patient-1", "policy-2"),
         claim(5, "Denied", "provider-1", "patient-2", "policy-1")>>

\* the filters a caller passes: each one undefined, empty or a value
ListFilters ==
    [skip : {-1, 0, 20}, limit : {-1, 100},
     status : {NONE, "", "Approved", "Submitted"},
     provider_id : {NONE, "provider-1"}, patient_id : {NONE, "", "patient-1"},
     policy_id : {NONE, "policy-2"}]

\* a caller about to list the claims; the service will answer the first n
GetClaimsInit ==
    /\ InitStore
    /\ localStorage.claimProcessorSettings = ABSENT
    /\ localStorage.recentClaims = ABSENT
    /\ pp = ppIdle /\ ppHist = ppHistNone /\ hook = hookInitial /\ sent = <<>>
    /\ sub \in {[subIdle EXCEPT !.via = "getClaims", !.input = <<filters, SubSeq(ListedPage, 1, n)>>] :
                   filters \in ListFilters, n \in {0, 3, Len(ListedPage)}}

\* the call, from the request to the value returned
GetClaimsCall ==
    /\ sub.pc = "idle" /\ sub.via = "getClaims"
    /\ LET call == getClaims(sub.input[1], sub.input[2])
       IN /\ sent' = <<[method |-> "GET", url |-> "/claims/", item |-> 0, body |-> NoBody,
                        params |-> call.params]>>
          /\ sub' = [sub EXCEPT !.pc = "done", !.outcome = "returned",
                                !.results = call.claims]
    /\ UNCHANGED <<storeVars, batchVars, hook>>

GetClaimsSpec == GetClaimsInit /\ [][GetClaimsCall]_vars

----------------------------------------------------------------------------
(* Properties *)

Indices(entries) == {entries[j].index : j \in 1..Len(entries)}
Ascending(entries) ==
    \A j, k \in 1..Len(entries) : j < k => entries[j].index < entries[k].index

\* C1: submit_batch isolation.  When the gateway's submit_batch returns for an
\* input of N claims, every item was attempted in order, total = N, successful
\* + failed = N, results holds exactly the indices whose create call succeeded
\* and errors exactly the others (create call failed, or refused before the
\* request for a missing required field), each in ascending order.
C1_BatchIsolation ==
    (sub.kind = "batch" /\ sub.pc = "done" /\ sub.outcome = "returned") =>
        LET N == Len(sub.input)
            succeeded == {a.index : a \in {sub.answers[j] : j \in 1..Len(sub.answers)} \cap
                                          [index : 0..(N - 1), ok : {TRUE}]}
            summary == BatchSummary(sub)
        IN /\ N > 0
           /\ sub.attempted = [k \in 1..N |-> k - 1]
           /\ summary.total = N
           /\ summary.successful + summary.failed = N
           /\ Indices(sub.results) = succeeded
           /\ Indices(sub.errors) = (0..(N - 1)) \ succeeded
           /\ Ascending(sub.results) /\ Ascending(sub.errors)
           /\ \A j \in 1..Len(sub.results) : sub.results[j].success
           /\ \A j \in 1..Len(sub.errors) : ~sub.errors[j].success

\* a 3-item batch given to the gateway whose second create call failed
C1_Witness ==
    /\ sub.via = "gateway" /\ sub.kind = "batch" /\ sub.pc = "done"
    /\ sub.answers = <<[index |-> 0, ok |-> TRUE], [index |-> 1, ok |-> FALSE],
                       [index |-> 2, ok |-> TRUE]>>
    /\ Indices(sub.results) = {0, 2} /\ Indices(sub.errors) = {1}

InvalidItems(claimsArray) ==
    {i \in 1..Len(claimsArray) : ~validateClaim(claimsArray[i]).isValid}

\* C2: submit_batch pre-flight validation.  A batch given to the hook with at
\* least one claim that fails validate ends by throwing one error that reports
\* every failing claim with its errors; no request is sent for any claim of the
\* batch and the hook's claims are as they were when the call began.
C2_PreflightValidation ==
    (sub.via = "hook" /\ sub.kind = "batch" /\ InvalidItems(sub.input) # {}) =>
        LET detail == sub.thrown.detail
        IN /\ sub.pc = "done" /\ sub.outcome = "threw"
           /\ sub.thrown.text = "Validation failed"
           /\ hook.error = sub.thrown
           /\ {detail[j].claim : j \in 1..Len(detail)} = InvalidItems(sub.input)
           /\ Len(detail) = Cardinality(InvalidItems(sub.input))
           /\ \A j \in 1..Len(detail) :
                 detail[j].errors = validateClaim(sub.input[detail[j].claim]).errors
           /\ sent = <<>>
           /\ sub.attempted = <<>> /\ sub.results = <<>>
           /\ hook.claims = sub.claimsAtCall

\* a batch of the valid sample and two claims that fail validate
C2_Witness ==
    /\ sub.via = "hook" /\ sub.kind = "batch" /\ sub.pc = "done"
    /\ Len(sub.input) = 3 /\ sub.input[1] = sampleClaim
    /\ InvalidItems(sub.input) = {2, 3}
    /\ sub.outcome = "threw"

\* C3: process_pending with no qualifying claim returns an empty result and
\* leaves the batch job as it was before the call (in progress false, progress,
\* results and errors unchanged).
C3_EmptyRunLeavesJobUntouched ==
    (ppHist.outcome = "returned" /\ ppHist.qualifying = 0) =>
        /\ ppHist.value = <<>>
        /\ state.batchProcessing = ppHist.job

Failures(entries) == {j \in 1..Len(entries) : ~entries[j].success}

\* C4: per-item outcome routing.  When a process_pending run has returned, the
\* job's results hold the claims whose update succeeded, its errors those whose
\* update failed, and |results| + |errors| is the number of qualifying claims.
C4_OutcomeRouting ==
    (ppHist.outcome = "returned") =>
        LET job == state.batchProcessing
        IN /\ \A j \in 1..Len(job.results) : job.results[j].success
           /\ Len(job.errors) = Cardinality(Failures(ppHist.value))
           /\ Len(job.results) + Len(job.errors) = ppHist.qualifying

\* C5: batch completion.  A batch job that is in progress eventually is not in
\* progress, with progress 100.
C5_BatchCompletes ==
    state.batchProcessing.inProgress
        ~> (~state.batchProcessing.inProgress /\ state.batchProcessing.progress = 10000)

\* C6: add_claim eviction.  A step that adds a claim to a store with n recent
\* claims leaves min(n + 1, 10) recent claims: the new claim, then the first
\* min(n, 9) previous ones in order; claims is the new claim, then all previous.
C6_AddClaimEviction ==
    [][state'.claims # state.claims =>
          LET n == Len(state.recentClaims)
              new == state'.claims[1]
          IN /\ new.processedAt > 0
             /\ state'.claims = <<new>> \o state.claims
             /\ Len(state'.recentClaims) = Min(n + 1, 10)
             /\ state'.recentClaims = <<new>> \o SubSeq(state.recentClaims, 1, Min(n, 9))]_vars

\* a claim was added to the ten recent claims last saved: the tenth is gone
C6_Witness ==
    /\ localStorage.recentClaims = JSONstringify(Page(10))
    /\ Len(state.claims) = 1
    /\ state.recentClaims = <<state.claims[1]>> \o SubSeq(Page(10), 1, 9)
    /\ state.claims[1].processedAt > 0

\* C7: recent_claims never holds more than 10 entries.
C7_RecentClaimsBound == Len(state.recentClaims) <= 10

CountStatus(claims, status) == Len(SelectSeq(claims, LAMBDA c : c.status = status))

\* C8: the derived statistics of the recent claims count the entries by status:
\* total, approved, denied, pending, and the approval rate rounded to 2 decimals.
C8_StatsByStatus ==
    LET claims == state.recentClaims
        stats == calculateStats(claims)
        approved == CountStatus(claims, "Approved")
    IN /\ stats.totalClaims = Len(claims)
       /\ stats.approvedCount = approved
       /\ stats.deniedCount = CountStatus(claims, "Denied")
       /\ stats.pendingCount = CountStatus(claims, "Pending")
       /\ stats.approvalRate =
              IF Len(claims) = 0 THEN 0 ELSE (2 * approved * 10000 + Len(claims)) \div (2 * Len(claims))

\* C9: statistics follow recent_claims.  In every state with no effect pending
\* the stats are those computed from the current recent claims (stats.total is
\* their number), and a pending recomputation is eventually done.
C9_StatsFollowRecentClaims ==
    /\ []((mounted /\ ~recentDirty) =>
             /\ state.stats.totalClaims = Len(state.recentClaims)
             /\ state.stats = calculateStats(state.recentClaims))
    /\ (recentDirty ~> ~recentDirty)

\* a claim was added to a loaded list and the stats were recomputed since
C9_Witness ==
    /\ mounted /\ ~recentDirty
    /\ Len(state.claims) = 1 /\ Len(state.recentClaims) = 4
    /\ state.recentClaims[1] = state.claims[1]
    /\ state.stats.totalClaims = 4 /\ state.stats.approvedCount = 1

\* C10: end-to-end submission.  After a claim was submitted through the form or
\* the hook and its create call succeeded, the store's claims and recent claims
\* both begin with the created claim, stamped with processedAt.
C10_SubmissionReachesStore ==
    (sub.via \in {"form", "hook"} /\ sub.kind = "single" /\ sub.pc = "done"
     /\ sub.outcome = "returned") =>
        /\ Len(state.claims) > 0 /\ Len(state.recentClaims) > 0
        /\ state.claims[1].claim_id = sub.created.claim_id
        /\ state.claims[1].processedAt > 0
        /\ state.recentClaims[1] = state.claims[1]

\* the report of a finished validateClaim call
Validated == sub.via = "validate" /\ sub.pc = "done"
ReportedErrors == sub.thrown.detail[1].errors
ErrorsOf(field) == SelectSeq(ReportedErrors, LAMBDA e : e.field = field)

\* C11: required-field validation.  For every claim, each required field that
\* is absent or empty gets exactly one error, '<field> is required', and no
\* other; with at least one such field the claim is not valid; and the claim
\* is valid if and only if the report holds no error.
C11_RequiredFields ==
    Validated =>
        LET claim == sub.input[1]
            M == {f \in {"provider_id", "risk_id", "patient_id", "policy_id", "summary"} :
                     claim[f] \in {NONE, ""}}
        IN /\ \A f \in M : ErrorsOf(f) = <<[field |-> f, text |-> "is required"]>>
           /\ M # {} => sub.outcome = "invalid"
           /\ (sub.outcome = "valid") <=> (ReportedErrors = <<>>)

\* a claim without provider_id and with an empty summary, otherwise the sample
C11_Witness ==
    /\ Validated
    /\ sub.input[1] = [sampleClaim EXCEPT !.provider_id = NONE, !.summary = ""]
    /\ Len(ReportedErrors) = 2 /\ sub.outcome = "invalid"

\* C12: summary length bounds.  No claim whose summary has fewer than 10 or
\* more than 1000 characters passes validate.
C12_SummaryLength ==
    (Validated /\ sub.outcome = "valid") =>
        (length(sub.input[1].summary) >= 10 /\ length(sub.input[1].summary) <= 1000)

\* the messages that stand for the kinds of error chosen by status
ServerErrorMsg == Msg("Server error. Please try again later.", <<>>)
StatusKindMsgs ==
    {Msg("Invalid API key. Please check your credentials.", <<>>),
     Msg("Access forbidden. Please check your permissions.", <<>>),
     Msg("Endpoint not found. Please check the API URL.", <<>>),
     Msg("Method not allowed. The backend endpoint may not support this HTTP method.", <<>>),
     Msg("Rate limit exceeded. Please try again later.", <<>>),
     ServerErrorMsg}

\* C13: gateway error taxonomy.  An error response is mapped by its status:
\* 401, 403, 404, 405, 429 to their own kinds, every status in 500..599 to the
\* server error, any other status to an unknown error carrying the body's
\* message when present; without a response the error is never a status kind.
C13_ErrorTaxonomy ==
    (sub.via = "interceptor" /\ sub.pc = "done") =>
        LET error == sub.input[1]
            thrown == sub.thrown
        IN IF error.response
           THEN CASE error.status = 401 ->
                       thrown = Msg("Invalid API key. Please check your credentials.", <<>>)
                  [] error.status = 403 ->
                       thrown = Msg("Access forbidden. Please check your permissions.", <<>>)
                  [] error.status = 404 ->
                       thrown = Msg("Endpoint not found. Please check the API URL.", <<>>)
                  [] error.status = 405 ->
                       thrown = Msg("Method not allowed. The backend endpoint may not support this HTTP method.", <<>>)
                  [] error.status = 429 ->
                       thrown = Msg("Rate limit exceeded. Please try again later.", <<>>)
                  [] error.status \in 500..599 -> thrown = ServerErrorMsg
                  [] OTHER ->
                       /\ thrown \notin StatusKindMsgs
                       /\ error.bodyMessage \notin {NONE, ""} => thrown.text = error.bodyMessage
           ELSE thrown \notin StatusKindMsgs

\* C14: store transitions are pure.  A step that applies update_settings leaves
\* settings = old settings merged with the payload, every other store field as
\* it was, and neither the gateway configuration nor persisted storage changed.
C14_PureTransitions ==
    [][\A settings \in SettingsPayloads :
          UpdateSettings(settings) =>
              /\ state' = [state EXCEPT !.settings = Spread(state.settings, settings)]
              /\ api' = api
              /\ localStorage' = localStorage]_vars

\* C20: gateway configuration follows settings.  After every step that changes
\* the settings' base URL or key (a change to an empty base URL and the update
\* from persisted settings at startup included), the gateway's base URL and key
\* equal settings.apiBaseUrl and settings.apiKey.
C20_GatewayFollowsSettings ==
    [][(\/ state'.settings.apiBaseUrl # state.settings.apiBaseUrl
        \/ state'.settings.apiKey # state.settings.apiKey) =>
           /\ api'.baseURL = state'.settings.apiBaseUrl
           /\ api'.apiKey = state'.settings.apiKey]_vars

\* C15: validation errors never reach the network.  Whichever entry point is
\* used, every create request sent is for a claim that passes validate.
C15_InvalidNeverSent ==
    \A j \in 1..Len(sent) :
        (sent[j].method = "POST" /\ sub.via \in {"form", "hook", "gateway"}) =>
            validateClaim(sub.input[sent[j].item + 1]).isValid

\* the update and the create requests sent so far, in the order sent
Puts == SelectSeq(sent, LAMBDA r : r.method = "PUT")
Posts == SelectSeq(sent, LAMBDA r : r.method = "POST")

\* C16: sequential, ordered batch calls.  Within a process_pending run and
\* within a submit_batch call the remote calls are issued in input order (the
\* page's claims by position, the batch's items by index), and at most one is
\* in flight: the calls issued exceed the calls completed by one exactly while
\* the run awaits a call, and by none otherwise.
C16_SequentialOrdered ==
    /\ \A a, b \in 1..Len(Puts) : a < b => Puts[a].item < Puts[b].item
    /\ \A a, b \in 1..Len(Posts) : a < b => Posts[a].item < Posts[b].item
    /\ pp.pc \in {"updating", "delay"} =>
           Len(Puts) - Len(pp.results) = (IF pp.pc = "updating" THEN 1 ELSE 0)
    /\ sub.kind = "batch" =>
           Len(Posts) - Len(sub.answers) = (IF sub.pc = "posting" THEN 1 ELSE 0)

\* the third update of a run is in flight after the first failed and the
\* second succeeded
C16_Witness ==
    /\ pp.pc = "updating" /\ Len(Puts) = 3 /\ Len(pp.results) = 2
    /\ ~pp.results[1].success /\ pp.results[2].success

\* the ids of the claims of the page a run fetched whose status is `status`
IdsWithStatus(status) ==
    {ppHist.page[j].claim_id : j \in {k \in 1..Len(ppHist.page) : ppHist.page[k].status = status}}

\* C17: process_pending selection and no retry.  Every update request of a run
\* is for a fetched claim whose status is Submitted or Pending and carries
\* status 'Under Review', reason_code null and the description 'Claim is being
\* processed'; no claim gets a second request, whether its first failed or
\* not; and when the run has returned, each such claim got its request.
C17_SelectionNoRetry ==
    LET qualifying == IdsWithStatus("Submitted") \cup IdsWithStatus("Pending")
    IN /\ \A a \in 1..Len(Puts) :
             /\ Puts[a].item \in qualifying
             /\ Puts[a].body = [status |-> "Under Review", reason_code |-> NONE,
                                reason_description |-> "Claim is being processed"]
       /\ \A a, b \in 1..Len(Puts) : a # b => Puts[a].item # Puts[b].item
       /\ ppHist.outcome = "returned" =>
             {Puts[a].item : a \in 1..Len(Puts)} = qualifying

\* a run over Submitted, Pending, Approved, Submitted has returned: three
\* updates were sent, the first of them failed, and none for the Approved claim
C17_Witness ==
    /\ ppHist.outcome = "returned" /\ Len(ppHist.page) = 4
    /\ ppHist.page[3].status = "Approved"
    /\ Len(Puts) = 3 /\ Len(ppHist.value) = 3
    /\ ~ppHist.value[1].success /\ ppHist.value[2].success

\* C19: progress tracks completed items.  Within a process_pending run over n
\* qualifying items the job's progress never decreases, and when the k-th
\* update call completes and no further call is issued, progress is k/n*100.
C19_ProgressTracksCompleted ==
    [][pp.pc # "idle" =>
          /\ state'.batchProcessing.progress >= state.batchProcessing.progress
          /\ (Len(pp'.results) = Len(pp.results) + 1 /\ sent' = sent) =>
                 state'.batchProcessing.progress =
                     Percent(Len(pp'.results), Len(pp.pending))]_vars

\* C18: a failed call leaves the store intact.  The step in which a process
\* claim, a load of the claims or a connection test fails changes nothing of
\* the store but error, which becomes the failure's message, and loading,
\* which becomes false.
C18_FailedCallLeavesStore ==
    [][\A op \in BagToSet(ops) : \A message \in CallErrors :
          (\/ ProcessClaimReject(op, message)
           \/ LoadClaimsReject(op, message)
           \/ TestConnectionSettles(op, ConnectionFailed(message))) =>
              state' = [state EXCEPT !.error = message, !.loading = FALSE]]_vars

\* the errors validate reports for `field` of claim c
FieldErrors(c, field) == SelectSeq(validateClaim(c).errors, LAMBDA e : e.field = field)

\* C21: a blank value skips the further checks of its field.  For every claim,
\* an identifier that is absent, empty or whitespace only gets the error
\* '<field> is required' and no other, and every field gets the errors it
\* gets when it alone is put into the sample claim (no short-circuit across
\* fields).
C21_BlankSkipsFurtherChecks ==
    Validated =>
        LET claim == sub.input[1]
        IN /\ \A f \in {"provider_id", "risk_id", "patient_id", "policy_id"} :
                 (claim[f] = NONE \/ trim(claim[f]) = "") =>
                     ErrorsOf(f) = <<[field |-> f, text |-> "is required"]>>
           /\ \A f \in DOMAIN claim :
                 ErrorsOf(f) = FieldErrors([sampleClaim EXCEPT ![f] = claim[f]], f)

\* C22: client-side list filtering.  list(filters) sends one request whose
\* parameters are skip and limit only (those given), and returns the fetched
\* claims that match every status, provider, patient and policy filter
\* supplied (a value that is not empty), in fetched order; with none supplied
\* it returns the fetched page.
C22_ClientSideFiltering ==
    (sub.via = "getClaims" /\ sub.pc = "done") =>
        LET filters == sub.input[1]
            page == sub.input[2]
            supplied == {f \in {"status", "provider_id", "patient_id", "policy_id"} :
                            filters[f] \notin {NONE, ""}}
        IN /\ Len(sent) = 1 /\ sent[1].method = "GET" /\ sent[1].url = "/claims/"
           /\ \A param \in sent[1].params :
                 param[1] \in {"skip", "limit"} /\ param[2] = filters[param[1]]
           /\ \A k \in {"skip", "limit"} :
                 filters[k] # -1 => <<k, filters[k]>> \in sent[1].params
           /\ sub.results = SelectSeq(page, LAMBDA c : \A f \in supplied : c[f] = filters[f])
           /\ supplied = {} => sub.results = page

\* the full page listed with the filters status Approved and provider-1: the
\* first and the fourth claim are returned
C22_Witness ==
    /\ sub.via = "getClaims" /\ sub.pc = "done"
    /\ sub.input[1].status = "Approved" /\ sub.input[1].provider_id = "provider-1"
    /\ sub.input[1].patient_id = "" /\ sub.input[1].policy_id = NONE
    /\ sub.input[1].skip = 0 /\ sub.input[1].limit = 100
    /\ Len(sub.input[2]) = 5
    /\ Len(sub.results) = 2 /\ sub.results[1].claim_id = 1 /\ sub.results[2].claim_id = 4

\* C23: last-write-wins on current_claim.  A step that applies add_claim makes
\* the claim it adds the current claim, a step that applies set_current_claim
\* makes the selected claim the current claim, whatever was current before,
\* and no other step changes the current claim.
C23_LastWriteWins ==
    [][/\ \A op \in InFlight("processClaim") : \A result \in UpdateResults(op.arg) :
             ProcessClaimResolve(op, result) =>
                 state'.currentClaim =
                     [id |-> op.arg, claim_id |-> result.claim_id, status |-> result.status,
                      decision |-> result.decision, processedAt |-> clock]
       /\ \A j \in 1..Len(state.recentClaims) :
             SetCurrentClaim(state.recentClaims[j]) =>
                 state'.currentClaim = state.recentClaims[j]
       /\ state'.currentClaim # state.currentClaim =>
             \/ \E op \in InFlight("processClaim") : \E result \in UpdateResults(op.arg) :
                   ProcessClaimResolve(op, result)
             \/ \E j \in 1..Len(state.recentClaims) :
                   SetCurrentClaim(state.recentClaims[j])]_vars

\* two overlapping process claims answered in the reverse order: the claim of
\* the one started first is current, being added last
C23_Witness ==
    /\ Len(state.claims) = 2 /\ ops = EmptyBag
    /\ state.claims[2].id = 2 /\ state.claims[1].id = 1
    /\ state.claims[1].processedAt > state.claims[2].processedAt
    /\ state.currentClaim = state.claims[1]

\* C24: one list entry per claim id.  In every reachable state no two entries
\* of the store's claims share an id.
C24_OneEntryPerId ==
    \A j, k \in 1..Len(state.claims) : j # k => state.claims[j].id # state.claims[k].id

\* C25: settings change during a batch.  A call is issued with the gateway
\* configuration of the moment it is issued, so with the new one after an
\* update; a step that updates the configuration leaves the calls already
\* issued as they were; and a run that has returned sent exactly one update
\* for each qualifying claim of its page, whatever updates happened meanwhile.
C25_ConfigDuringBatch ==
    [][/\ (sent' # sent /\ Len(sent') > 0) =>
             /\ sent'[Len(sent')].config = [baseURL |-> api.baseURL, apiKey |-> api.apiKey]
             /\ api' = api
             /\ SubSeq(sent', 1, Len(sent') - 1) \in {<<>>, sent}
       /\ api' # api => sent' = sent
       /\ ppHist'.outcome = "returned" =>
             LET qualifying == IdsWithStatus("Submitted")' \cup IdsWithStatus("Pending")'
             IN /\ {Puts'[a].item : a \in 1..Len(Puts')} = qualifying
                /\ Len(Puts') = Cardinality(qualifying)]_vars

\* a run whose first update went out with the initial configuration and whose
\* second went out with the one saved in between
C25_Witness ==
    /\ Len(Puts) = 2
    /\ Puts[1].config.baseURL = "http://localhost:8000"
    /\ Puts[2].config = [baseURL |-> "http://claims.example:9000", apiKey |-> "key-2"]
    /\ ppHist.outcome = "returned"

\* no effect of the provider is pending
Quiescent == mounted /\ ~settingsDirty /\ ~recentDirty

C27_CorruptTreatedAsAbsent ==
    [][(~mounted /\ mounted') =>
          /\ state'.error = NONE
          /\ state'.settings =
                IF localStorage.claimProcessorSettings.tag = "json"
                THEN localStorage.claimProcessorSettings.json ELSE initialSettings
          /\ state'.recentClaims =
                IF localStorage.recentClaims.tag = "json"
                THEN localStorage.recentClaims.json ELSE <<>>]_vars

\* started with unparseable settings: the settings are the defaults and the
\* two recent claims persisted were loaded
C27_Witness ==
    /\ mounted
    /\ state.settings = initialSettings
    /\ state.recentClaims = Page(2)
    /\ state.error = NONE /\ ops = EmptyBag /\ state.claims = <<>>

\* the results and errors of the batch job are those of the current run (or of
\* the last one, once it ended): nothing of an earlier run is among them
OnlyThisRun ==
    LET job == state.batchProcessing
    IN /\ pp.pc \in {"fetching", "updating"} => job.results = <<>> /\ job.errors = <<>>
       /\ pp.pc = "delay" =>
             /\ job.results = SubSeq(pp.results, 1, pp.i)
             /\ job.errors = <<>>
       /\ (pp.pc = "idle" /\ ppHist.outcome = "returned") =>
             job.results = ppHist.value /\ job.errors = <<>>
       /\ (pp.pc = "idle" /\ ppHist.outcome = "threw") =>
             job.results = <<>> /\ Len(job.errors) = 1

\* C28: each batch run resets the batch job.  Immediately after the start of a
\* run the job is in progress with progress 0 and no results and no errors, and
\* throughout the run and after it the job's results and errors are only those
\* the run produced, whatever an earlier run (returned or failed) left behind.
C28_RunResetsJob ==
    [][/\ (pp.pc = "idle" /\ pp'.pc = "fetching") =>
             state'.batchProcessing =
                 [inProgress |-> TRUE, progress |-> 0, results |-> <<>>, errors |-> <<>>]
       /\ OnlyThisRun']_vars

\* a second run has just started after a first one that left results or an
\* error in the job
C28_Witness ==
    /\ pp.pc = "fetching" /\ pp.runs = 2
    /\ (ppHist.job.results # <<>> \/ ppHist.job.errors # <<>>)
    /\ state.batchProcessing.results = <<>> /\ state.batchProcessing.errors = <<>>

\* C30: the shape of the batch job.  In every reachable state the job's progress
\* lies within 0..100 (here in hundredths of a percent), and whenever the job
\* is not in progress its progress is 0 (no run has started) or 100 (the last
\* run finished).
C30_BatchJobShape ==
    LET job == state.batchProcessing
    IN /\ job.progress \in 0..10000
       /\ ~job.inProgress => job.progress \in {0, 10000}

\* a run over several claims finished: not in progress, progress 100
C30_Witness ==
    /\ ~state.batchProcessing.inProgress
    /\ state.batchProcessing.progress = 10000
    /\ Len(state.batchProcessing.results) >= 3
    /\ pp.pc = "idle" /\ ppHist.outcome = "returned"

\* C29: the loading flag under overlapping operations.  Whenever an operation
\* of the store that set the flag (process claim, load claims, test connection)
\* is still in flight the flag is true, and once none is in flight it is false.
C29_LoadingWhileInFlight ==
    state.loading <=> (ops # EmptyBag)

=============================================================================
